---- MODULE Spec2Model ----
(***************************************************************************)
(* Model of src/browser-use.py: the FastMCP "browser-agent" server.        *)
(*                                                                         *)
(* The server owns one Browser, one BrowserContext (the session) and one   *)
(* Controller, acquired by browser_lifespan, and exposes nine tools.  The   *)
(* browser_use library (Browser, BrowserContext, Controller, ActionResult)  *)
(* is external: every one of its calls is modelled by the outcomes it can   *)
(* produce (a value, or a raised exception), chosen nondeterministically.   *)
(*                                                                         *)
(* A tool is an asyncio coroutine: it runs atomically up to its next        *)
(* `await`, where other coroutines of the same event loop may run.  Each    *)
(* action below is one such atomic stretch of one handler.                  *)
(*                                                                         *)
(* Texts are sequences of tokens; "\n".join is modelled by Join.            *)
(***************************************************************************)
EXTENDS Integers, Sequences, FiniteSets, TLC

VARIABLES
    life,      \* position of browser_lifespan
    browser,   \* "none" | "open" | "closed"
    context,   \* "none" | "open" | "closed"
    closeCalls,\* the close() calls made so far, in order
    calls,     \* per tool-call slot: the coroutine's state
    hashes,    \* the session's current set of element-identity hashes
    log,       \* controller.act calls made on the session: <<slot, index>>
    served     \* number of tool calls answered so far

vars == <<life, browser, context, closeCalls, calls, hashes, log, served>>

----------------------------------------------------------------------------
(* Bounds *)

MaxActions == 3      \* longest action list given to execute_multiple_actions
MaxConcActions == 2  \* longest action list in the concurrent specification
MaxCalls == 2        \* tool calls answered one after another

----------------------------------------------------------------------------
(* Values *)

None == "None"       \* Python None / a falsy value

Slots == {1, 2}

\* Element-identity hashes of the page; what a dispatch may leave behind.
BaseHashes == {1, 2}
HashChoices == { {1, 2}, {1, 2, 3}, {1, 3} }

\* Action entries of the `actions` argument: dicts with or without the keys
\* "name" and "params"; params is represented by its key set.
Entry(keys, name, params) == [keys |-> keys, name |-> name, params |-> params]

WellFormedEntries ==
    { Entry({"name", "params"}, "click_element", {"index"}),
      Entry({"name", "params"}, "scroll_down", {"amount"}) }

MalformedEntries ==
    { Entry({"params"}, None, {"index"}),
      Entry({"name"}, "click_element", {}) }

Entries == WellFormedEntries \cup MalformedEntries

SeqsUpTo(S, n) == UNION { [1..k -> S] : k \in 0..n }

\* ActionResult as returned by controller.act: two independent optional fields.
ActionResults == [extracted_content : {None, "content"}, error : {None, "boom"}]

Exceptions == {"exc"}

----------------------------------------------------------------------------
(* Pure helpers *)

RECURSIVE Join(_)
\* "\n".join(results)
Join(texts) ==
    IF Len(texts) = 0 THEN <<>>
    ELSE IF Len(texts) = 1 THEN texts[1]
    ELSE texts[1] \o <<"\n">> \o Join(Tail(texts))

\* `"name" not in action_obj or "params" not in action_obj`
IsMalformed(action_obj) ==
    "name" \notin action_obj.keys \/ "params" \notin action_obj.keys

InvalidFormatText == <<"Error: Invalid action format. Must include 'name' and 'params'.">>

ErrorText(error) == <<"Error: ", error>>

\* The success message of each tool.
SuccessText(tool, action_name) ==
    CASE tool \in {"execute_action", "execute_multiple_actions"} ->
            <<"Action ", action_name, " executed successfully">>
      [] tool = "navigate_to_url" -> <<"Navigated to ", "url", " successfully">>
      [] tool = "click_element" -> <<"Clicked element with index ", "index", " successfully">>
      [] tool = "input_text" -> <<"Input text into element successfully">>
      [] tool = "scroll_down" -> <<"Scrolled down successfully">>
      [] tool = "extract_content" -> <<"Extracted content successfully">>

\* The text of each tool's `except Exception as e` branch.
ExceptText(tool, e) ==
    CASE tool = "get_browser_state" -> <<"Error getting browser state: ", e>>
      [] tool = "execute_action" -> <<"Error executing action: ", e>>
      [] tool = "execute_multiple_actions" -> <<"Error executing multiple actions: ", e>>
      [] tool = "navigate_to_url" -> <<"Error navigating to URL: ", e>>
      [] tool = "click_element" -> <<"Error clicking element: ", e>>
      [] tool = "input_text" -> <<"Error inputting text: ", e>>
      [] tool = "scroll_down" -> <<"Error scrolling down: ", e>>
      [] tool = "extract_content" -> <<"Error extracting content: ", e>>

\* Variant: the extracted content is not reported.
ResultText_NoContent(tool, action_name, result) ==
    IF result.extracted_content = None /\ result.error # None
    THEN ErrorText(result.error)
    ELSE SuccessText(tool, action_name)

\* The if/elif/else that turns an ActionResult into text.
ResultText(tool, action_name, result) ==
    IF result.extracted_content # None THEN <<result.extracted_content>>
    ELSE IF result.error # None THEN ErrorText(result.error)
    ELSE SuccessText(tool, action_name)

\* Whether the loop of execute_multiple_actions leaves after this result:
\* the `break` sits in the `elif result.error` branch.
BreaksLoop(result) ==
    result.extracted_content = None /\ result.error # None

\* The action a single-action tool builds from its arguments.
ToolAction(tool) ==
    CASE tool = "navigate_to_url" -> Entry({"name", "params"}, "go_to_url", {"url"})
      [] tool = "click_element" -> Entry({"name", "params"}, "click_element", {"index"})
      [] tool = "input_text" -> Entry({"name", "params"}, "input_text", {"index", "text"})
      [] tool = "scroll_down" -> Entry({"name", "params"}, "scroll_down", {"amount"})
      [] tool = "extract_content" -> Entry({"name", "params"}, "extract_content", {"goal"})

FixedTools == {"navigate_to_url", "click_element", "input_text", "scroll_down", "extract_content"}

----------------------------------------------------------------------------
(* A tool-call slot *)

IdleCall ==
    [ tool |-> "none", actions |-> <<>>, pc |-> "idle", i |-> 0,
      results |-> <<>>, response |-> <<>>,
      exc |-> None,             \* the exception the tool's try caught, if any
      dispatched |-> <<>>,      \* indices handed to controller.act, in order
      acts |-> <<>>,            \* the ActionResults received, in order
      initial_hashes |-> {},    \* the session's hashes when the call began
      after |-> <<>> ]          \* the session's hashes after each result

NewCall(tool, actions) ==
    [IdleCall EXCEPT !.tool = tool, !.actions = actions, !.initial_hashes = hashes]

\* The tool returns `text` to the framework.
Returned(call, results, text) ==
    [call EXCEPT !.pc = "returned", !.results = results, !.response = text]

\* The coroutine suspends in `await controller.act(...)` for action m.
Awaiting(call, results, m) ==
    [call EXCEPT !.pc = "awaiting", !.i = m, !.results = results,
                 !.dispatched = Append(@, m)]

\* Variant: the except branch appends the error to the accumulated results.
Caught_KeepResults(call, results, e) ==
    [Returned(call, results, Join(Append(results, ExceptText(call.tool, e))))
        EXCEPT !.exc = e]

\* The `except Exception as e` branch of a tool: the accumulated results are
\* dropped and the response is the error text alone.
Caught(call, results, e) ==
    [Returned(call, results, ExceptText(call.tool, e)) EXCEPT !.exc = e]

\* An exception leaves the tool (get_available_actions has no try/except).
Propagated(call) ==
    [call EXCEPT !.pc = "raised"]

RECURSIVE RunLoop(_, _, _, _)
\* `for action_obj in actions:` from index j on, up to the next await or the
\* return: malformed entries add an error text and `continue`; a well-formed
\* entry is built (create_action_model raises iff buildRaises) and dispatched.
RunLoop(call, j, results, buildRaises) ==
    IF j > Len(call.actions) THEN Returned(call, results, Join(results))
    ELSE IF IsMalformed(call.actions[j])
         THEN RunLoop(call, j + 1, Append(results, InvalidFormatText), buildRaises)
    ELSE IF buildRaises THEN Caught(call, results, "exc")
    ELSE Awaiting(call, results, j)

\* The synthetic result of the specified design ("page changed after action
\* i/n, caller must fetch a fresh plan"); no handler of the source produces it.
InterruptionText == <<"Page changed after action; fetch a fresh plan">>

\* Variant: the loop stops with a synthetic result when the page's hashes
\* differ from the ones the call began with.
AfterResult_Interrupt(call, result, buildRaises) ==
    LET action_name == call.actions[call.i].name
        results == Append(call.results, ResultText(call.tool, action_name, result))
        stop == Append(results, InterruptionText)
    IN  IF call.tool = "execute_multiple_actions"
        THEN IF BreaksLoop(result)
             THEN Returned(call, results, Join(results))
             ELSE IF /\ call.i < Len(call.actions)
                     /\ "index" \in call.actions[call.i].params
                     /\ call.after[Len(call.after)] # call.initial_hashes
             THEN Returned(call, stop, Join(stop))
             ELSE RunLoop(call, call.i + 1, results, buildRaises)
        ELSE Returned(call, results, ResultText(call.tool, action_name, result))

\* What the handler does with the ActionResult of the awaited action.
AfterResult(call, result, buildRaises) ==
    LET action_name == call.actions[call.i].name
        results == Append(call.results, ResultText(call.tool, action_name, result))
    IN  IF call.tool = "execute_multiple_actions"
        THEN IF BreaksLoop(result)
             THEN Returned(call, results, Join(results))
             ELSE RunLoop(call, call.i + 1, results, buildRaises)
        ELSE Returned(call, results, ResultText(call.tool, action_name, result))

\* The session's record of controller.act calls.
Logged(c, call) ==
    IF call.pc = "awaiting" /\ call.tool # "get_browser_state"
    THEN Append(log, <<c, call.i>>) ELSE log

Serving == life = "serving"

----------------------------------------------------------------------------
(* Tool handlers *)

\* execute_multiple_actions(actions, ctx), up to its first await or return.
CallMultiple(c, actions, buildRaises) ==
    /\ Serving /\ calls[c].pc = "idle"
    /\ LET call == RunLoop(NewCall("execute_multiple_actions", actions), 1, <<>>, buildRaises)
       IN  /\ calls' = [calls EXCEPT ![c] = call]
           /\ log' = Logged(c, call)
    /\ UNCHANGED <<life, browser, context, closeCalls, hashes, served>>

\* execute_action / navigate_to_url / click_element / input_text /
\* scroll_down / extract_content, up to the await of controller.act.
CallSingle(c, tool, action, buildRaises) ==
    /\ Serving /\ calls[c].pc = "idle"
    /\ LET new == NewCall(tool, <<action>>)
           call == IF buildRaises THEN Caught(new, <<>>, "exc")
                   ELSE Awaiting(new, <<>>, 1)
       IN  /\ calls' = [calls EXCEPT ![c] = call]
           /\ log' = Logged(c, call)
    /\ UNCHANGED <<life, browser, context, closeCalls, hashes, served>>

\* get_available_actions(ctx): no await and no try/except.
CallGetActions(c, raises) ==
    /\ Serving /\ calls[c].pc = "idle"
    /\ LET new == NewCall("get_available_actions", <<>>)
       IN  calls' = [calls EXCEPT ![c] =
                        IF raises THEN Propagated(new)
                        ELSE Returned(new, <<>>, <<"prompt description">>)]
    /\ UNCHANGED <<life, browser, context, closeCalls, hashes, log, served>>

\* get_browser_state(ctx), up to `await browser_context.get_state()`.
CallGetState(c) ==
    /\ Serving /\ calls[c].pc = "idle"
    /\ calls' = [calls EXCEPT ![c] =
                    [NewCall("get_browser_state", <<>>) EXCEPT !.pc = "awaiting"]]
    /\ UNCHANGED <<life, browser, context, closeCalls, hashes, log, served>>

\* get_state() returns (or clickable_elements_to_string / model_dump raise).
StateReturn(c, raises) ==
    /\ Serving /\ calls[c].pc = "awaiting" /\ calls[c].tool = "get_browser_state"
    /\ calls' = [calls EXCEPT ![c] =
                    IF raises THEN Caught(@, <<>>, "exc")
                    ELSE Returned(@, <<>>, <<"Current URL, title, tabs, elements">>)]
    /\ UNCHANGED <<life, browser, context, closeCalls, hashes, log, served>>

\* controller.act returns `result`, leaving the page with hashes h; the
\* handler runs on to its next await or to its return.
ActReturn(c, result, h, buildRaises) ==
    /\ Serving /\ calls[c].pc = "awaiting" /\ calls[c].tool # "get_browser_state"
    /\ hashes' = h
    /\ LET got == [calls[c] EXCEPT !.acts = Append(@, result), !.after = Append(@, h)]
           call == AfterResult(got, result, buildRaises)
       IN  /\ calls' = [calls EXCEPT ![c] = call]
           /\ log' = Logged(c, call)
    /\ UNCHANGED <<life, browser, context, closeCalls, served>>

\* controller.act raises e.
ActRaise(c, e) ==
    /\ Serving /\ calls[c].pc = "awaiting" /\ calls[c].tool # "get_browser_state"
    /\ calls' = [calls EXCEPT ![c] = Caught(@, @.results, e)]
    /\ UNCHANGED <<life, browser, context, closeCalls, hashes, log, served>>

\* The framework sends the answer and the slot takes the next request.
Reply(c) ==
    /\ Serving /\ calls[c].pc \in {"returned", "raised"}
    /\ served < MaxCalls
    /\ served' = served + 1
    /\ calls' = [calls EXCEPT ![c] = IdleCall]
    /\ UNCHANGED <<life, browser, context, closeCalls, hashes, log>>

----------------------------------------------------------------------------
(* browser_lifespan *)

\* Browser(config=...), `await browser.new_context()`, Controller(): all
\* before the try.
Startup(outcome) ==
    /\ life = "start"
    /\ browser' = "open"
    /\ context' = IF outcome = "new_context raises" THEN "none" ELSE "open"
    /\ life' = IF outcome = "ok" THEN "serving" ELSE "failed"
    /\ UNCHANGED <<closeCalls, calls, hashes, log, served>>

\* The body of the `async with` ends, normally or with an exception thrown
\* into the generator at the yield: either way control enters `finally`.
\* Handlers still suspended make no further step.
Shutdown ==
    /\ life = "serving"
    /\ life' = "finally"
    /\ UNCHANGED <<browser, context, closeCalls, calls, hashes, log, served>>

\* `await browser_context.close()`
CloseContext(raises) ==
    /\ life = "finally"
    /\ closeCalls' = Append(closeCalls, "browser_context.close")
    /\ context' = IF raises THEN context ELSE "closed"
    /\ life' = IF raises THEN "failed" ELSE "closing browser"
    /\ UNCHANGED <<browser, calls, hashes, log, served>>

\* `await browser.close()`
CloseBrowser(raises) ==
    /\ life = "closing browser"
    /\ closeCalls' = Append(closeCalls, "browser.close")
    /\ browser' = IF raises THEN browser ELSE "closed"
    /\ life' = IF raises THEN "failed" ELSE "done"
    /\ UNCHANGED <<context, calls, hashes, log, served>>

----------------------------------------------------------------------------
(* Specifications *)

Idle == [c \in Slots |-> IdleCall]

\* A serving server: the lifespan has yielded.
InitServing ==
    /\ life = "serving" /\ browser = "open" /\ context = "open"
    /\ closeCalls = <<>>
    /\ calls = Idle
    /\ hashes = BaseHashes
    /\ log = <<>>
    /\ served = 0

\* The process before browser_lifespan is entered.
InitStart ==
    /\ life = "start" /\ browser = "none" /\ context = "none"
    /\ closeCalls = <<>>
    /\ calls = Idle
    /\ hashes = BaseHashes
    /\ log = <<>>
    /\ served = 0

ActStep(c) ==
    \/ \E r \in ActionResults, h \in HashChoices, b \in BOOLEAN : ActReturn(c, r, h, b)
    \/ \E e \in Exceptions : ActRaise(c, e)

\* One call of execute_multiple_actions on a serving server.
Init == InitServing

Next ==
    \/ \E actions \in SeqsUpTo(Entries, MaxActions), b \in BOOLEAN : CallMultiple(1, actions, b)
    \/ ActStep(1)

Spec == Init /\ [][Next]_vars

AnyCall(c) ==
    \/ \E actions \in SeqsUpTo(Entries, 1), b \in BOOLEAN : CallMultiple(c, actions, b)
    \/ \E a \in WellFormedEntries, b \in BOOLEAN : CallSingle(c, "execute_action", a, b)
    \/ \E t \in FixedTools, b \in BOOLEAN : CallSingle(c, t, ToolAction(t), b)
    \/ \E b \in BOOLEAN : CallGetActions(c, b)
    \/ CallGetState(c)
    \/ \E b \in BOOLEAN : StateReturn(c, b)

\* The whole server run: lifespan, and tool calls answered one at a time.
NextServer ==
    \/ \E o \in {"ok", "new_context raises", "Controller raises"} : Startup(o)
    \/ Shutdown
    \/ \E b \in BOOLEAN : CloseContext(b)
    \/ \E b \in BOOLEAN : CloseBrowser(b)
    \/ AnyCall(1)
    \/ ActStep(1)
    \/ Reply(1)

SpecServer == InitStart /\ [][NextServer]_vars

\* Two tool calls in flight on the one event loop: slot 1 runs
\* execute_multiple_actions, slot 2 any tool that dispatches.
NextConcurrent ==
    \/ \E actions \in SeqsUpTo(WellFormedEntries, MaxConcActions), b \in BOOLEAN :
          CallMultiple(1, actions, b)
    \/ \E actions \in SeqsUpTo(WellFormedEntries, 1), b \in BOOLEAN : CallMultiple(2, actions, b)
    \/ \E a \in WellFormedEntries, b \in BOOLEAN : CallSingle(2, "execute_action", a, b)
    \/ \E t \in FixedTools, b \in BOOLEAN : CallSingle(2, t, ToolAction(t), b)
    \/ \E c \in Slots : ActStep(c)

SpecConcurrent == InitServing /\ [][NextConcurrent]_vars

----------------------------------------------------------------------------
(* Properties of execute_multiple_actions (specification Spec, slot 1) *)

E == calls[1]
N == Len(E.actions)

IsMultiple == E.tool = "execute_multiple_actions"
Finished == IsMultiple /\ E.pc = "returned"

\* The action whose ActionResult is E.acts[p], and the hashes read after it.
ActionOf(p) == E.dispatched[p]
ReferencesElement(k) == "index" \in E.actions[k].params

Dispatched(k) == \E p \in 1..Len(E.dispatched) : E.dispatched[p] = k
AllWellFormed == \A j \in 1..N : ~IsMalformed(E.actions[j])
NoResultError == \A p \in 1..Len(E.acts) : E.acts[p].error = None
NoInterruption == \A q \in 1..Len(E.results) : E.results[q] # InterruptionText

\* Whether `text` occurs in `response` as a run of consecutive tokens.
Contains(response, text) ==
    \E s \in 0..(Len(response) - Len(text)) :
        SubSeq(response, s + 1, s + Len(text)) = text

\* The text the handler derives from a result that carries no error.
ExpectedText(name, r) ==
    IF r.extracted_content # None THEN <<r.extracted_content>>
    ELSE <<"Action ", name, " executed successfully">>

\* C1: whenever the ActionResult of action k carries an error, whatever else
\* it carries, that error is among the recorded results and no action after k
\* has been dispatched in the call.
C1_ErrorHaltsSequence ==
    IsMultiple =>
        \A p \in 1..Len(E.acts) :
            E.acts[p].error # None =>
                /\ \E q \in 1..Len(E.results) : E.results[q] = <<"Error: ", E.acts[p].error>>
                /\ \A r \in 1..Len(E.dispatched) : E.dispatched[r] <= ActionOf(p)

\* C2: when entry j of the list is malformed, no action at index j or later is
\* ever dispatched, and the finished call's response carries the error for
\* that entry.
C2_MalformedStopsSequence ==
    IsMultiple =>
        \A j \in 1..N :
            IsMalformed(E.actions[j]) =>
                /\ \A r \in 1..Len(E.dispatched) : E.dispatched[r] < j
                /\ Finished => Contains(E.response, InvalidFormatText)

\* C3: with N >= 2, when action k before the last references an element and
\* the hashes read after it are not a subset of the baseline, no action after
\* k is dispatched and the results are those up to k followed by exactly one
\* synthetic interruption result.
C3_ChangedElementsInterrupt ==
    (IsMultiple /\ N >= 2) =>
        \A p \in 1..Len(E.acts) :
            ( /\ ActionOf(p) < N
              /\ ReferencesElement(ActionOf(p))
              /\ ~(E.after[p] \subseteq E.initial_hashes) ) =>
                /\ Len(E.dispatched) = p
                /\ Len(E.results) = ActionOf(p) + 1
                /\ E.results[Len(E.results)] = InterruptionText
                /\ Finished

\* C4: a finished call with N well-formed actions, no error result, no
\* exception and unchanged element hashes has dispatched actions 1..N in
\* order, each once, and its response is the N derived texts in that order.
C4_AllActionsRunInOrder ==
    ( /\ Finished /\ AllWellFormed /\ NoResultError /\ E.exc = None
      /\ \A p \in 1..Len(E.after) : E.after[p] = E.initial_hashes ) =>
        /\ E.dispatched = [k \in 1..N |-> k]
        /\ log = [k \in 1..N |-> <<1, k>>]
        /\ Len(E.acts) = N
        /\ E.results = [k \in 1..N |-> ExpectedText(E.actions[k].name, E.acts[k])]
        /\ E.response = Join(E.results)

C4_Witness ==
    /\ Finished /\ AllWellFormed /\ NoResultError /\ E.exc = None
    /\ \A p \in 1..Len(E.after) : E.after[p] = E.initial_hashes
    /\ N = 3
    /\ E.acts[1].extracted_content # None
    /\ E.acts[2].extracted_content = None
    /\ E.actions[1] # E.actions[2]

\* C8: a finished call with an empty action list answers with an error text
\* and has made no call to the controller.
C8_EmptyListIsError ==
    (Finished /\ N = 0) =>
        /\ Len(E.response) > 0
        /\ E.dispatched = <<>> /\ log = <<>>

\* The case of C9: some element-referencing action was followed by a hash set
\* that is a strict superset of the baseline, and action k is the one.
OnlyAppeared(p) ==
    /\ ReferencesElement(ActionOf(p))
    /\ E.initial_hashes \subseteq E.after[p]
    /\ E.after[p] # E.initial_hashes

C10_RaiseDropsResults ==
    (Finished /\ E.exc # None /\ Len(E.acts) >= 1) =>
        /\ E.response = <<"Error executing multiple actions: ", E.exc>>
        /\ Len(E.results) >= 1
        /\ \A p \in 1..Len(E.acts) : \E r \in 1..Len(log) : log[r] = <<1, E.dispatched[p]>>
        /\ hashes = E.after[Len(E.after)]

C10_Witness ==
    /\ Finished /\ E.exc # None
    /\ Len(E.acts) = 2 /\ Len(E.dispatched) = 3
    /\ hashes # E.initial_hashes

----------------------------------------------------------------------------
(* Properties of the server (specifications SpecConcurrent, SpecServer) *)

\* C5: no dispatch of another tool call lies between two dispatches of a
\* running execute_multiple_actions call.
C5_OneSequenceInFlight ==
    \A p, q, r \in 1..Len(log) :
        ( /\ p < q /\ q < r
          /\ log[p][1] = log[r][1]
          /\ calls[log[p][1]].tool = "execute_multiple_actions" ) =>
            log[q][1] = log[p][1]

\* C6: no failure of the session or the registry leaves a tool as an
\* exception: every tool call ends with a text response.
C6_FailuresBecomeText ==
    \A c \in Slots : calls[c].pc # "raised"

\* C7: once the lifespan has ended after the Browser was created,
\* browser.close has been called, and browser_context.close has been called
\* if a context was acquired.
C7_BrowserReleased ==
    (life \in {"done", "failed"} /\ browser # "none") =>
        /\ \E r \in 1..Len(closeCalls) : closeCalls[r] = "browser.close"
        /\ context # "none" =>
              \E r \in 1..Len(closeCalls) : closeCalls[r] = "browser_context.close"

====
